---- MODULE Spec2Model ----
(***************************************************************************)
(* Model of lib/aggregator.js: the Aggregator that records, from a         *)
(* runner's lifecycle events, when every suite, test and hook started and  *)
(* ended and how every test concluded, and the Data record it keeps per    *)
(* suite and per test.                                                     *)
(*                                                                         *)
(* JavaScript values are records [tag, val]: a Date is tagged "date" and   *)
(* carries its time value, a number is tagged "number"; undefined, null    *)
(* and NaN carry val 0.  An object used as a dictionary ({}) is a function *)
(* whose DOMAIN is the set of its own keys.  A handler or method that      *)
(* throws leaves the state as it was when the exception was raised and     *)
(* reports the exception in err (handlers) or in the threw field of the    *)
(* result (methods and queries).                                           *)
(***************************************************************************)
EXTENDS Integers, Sequences, FiniteSets, TLC

\* ---------------------------------------------------------------- bounds
\* Largest reading of the clock behind `new Date()`.
MaxClock == 2
\* Number of runner events and consumer calls delivered in one behaviour.
MaxEvents == 4
\* Longest hookOrder array built in one behaviour.
MaxHookOrder == 2
\* Number of those deliveries that may be consumer calls.
MaxCalls == 1

\* ------------------------------------------------------------ input sets
\* uids the engine assigns.  "x" names both a suite and a test: the two
\* dictionaries are separate namespaces.  uids are ordinary own keys (no
\* name inherited from Object.prototype) and are truthy.
TestIds == {"x", "t"}
SuiteIds == {"x"}
HookIds == {"h1", "h2"}

\* Shapes of a hook payload that carries no owning test: no ctx, a ctx
\* without currentTest, a currentTest without uid.
NoCtx == "<no ctx>"
NoCurrentTest == "<no ctx.currentTest>"
NoUid == "<no ctx.currentTest.uid>"
NoRefs == {NoCtx, NoCurrentTest, NoUid}

\* ------------------------------------------------------ JavaScript values
Undefined == [tag |-> "undefined", val |-> 0]
Null == [tag |-> "null", val |-> 0]
NaN == [tag |-> "NaN", val |-> 0]
Date(t) == [tag |-> "date", val |-> t]
Num(n) == [tag |-> "number", val |-> n]

\* x == null in JavaScript: true of null and of undefined.
LooselyNull(v) == v.tag \in {"null", "undefined"}

\* a - b: both operands go through ToNumber (a Date gives its time value,
\* null gives 0, undefined gives NaN); NaN is contagious.
ToNumber(v) ==
  CASE v.tag = "date" -> Num(v.val)
    [] v.tag = "number" -> Num(v.val)
    [] v.tag = "null" -> Num(0)
    [] OTHER -> NaN

Minus(a, b) ==
  IF ToNumber(a).tag = "NaN" \/ ToNumber(b).tag = "NaN"
  THEN NaN
  ELSE Num(ToNumber(a).val - ToNumber(b).val)

\* ---------------------------------------------------------------- errors
NoError == "none"
TypeError == "TypeError"
InvalidTestUid == "Error: uid is invalid for tests"
InvalidSuiteUid == "Error: uid is invalid for suites"
InvalidState == "Error: state must be a valid terminalState"
InvalidEnd == "Error: end must be an instanceof Date"

\* ------------------------------------------------------------- constants
ERROR == "error"
SKIP == "skip"
SUCCESS == "success"
\* terminalState before any outcome: JavaScript null.
NoState == "null"

EmptyObject == [k \in {} |-> Undefined]

VARIABLES
  _start,     \* Aggregator._start: undefined until 'start'
  _end,       \* Aggregator._end: undefined until 'end'
  _suites,    \* Aggregator._suites: uid -> Data
  _tests,     \* Aggregator._tests: uid -> Data
  now,        \* the clock: what the last `new Date()` read
  err,        \* what the last handler or call threw, NoError if nothing
  ev,         \* the last event or call delivered
  nEvents,    \* number of events and calls delivered so far
  nCalls,     \* number of consumer calls among them
  hist        \* history of the run, for stating the claims

vars == <<_start, _end, _suites, _tests, now, err, ev, nEvents, nCalls, hist>>

\* ------------------------------------------------------------------ Data
\* function Data (start): a record with no end, no hooks, no outcome.
Data(start) ==
  [start |-> start, end |-> Null, hooks |-> EmptyObject,
   hookOrder |-> <<>>, terminalState |-> NoState]

\* What a method call leaves behind: the exception thrown (NoError if it
\* returned) and the record after the call.
Returned(d) == [threw |-> NoError, data |-> d]
Threw(e, d) == [threw |-> e, data |-> d]

\* getDuration with the operands of the subtraction swapped.
getDuration_Swapped(d) ==
  IF LooselyNull(d.end) THEN Null ELSE Minus(d.start, d.end)

\* __.getDuration: null while end == null, else end - start.
getDuration(d) ==
  IF LooselyNull(d.end) THEN Null ELSE Minus(d.end, d.start)

getIsError(d) == d.terminalState = ERROR

\* getIsSkip comparing with the wrong constant.
getIsSkip_WrongConstant(d) == d.terminalState = SUCCESS

getIsSkip(d) == d.terminalState = SKIP

getIsSuccess(d) == d.terminalState = SUCCESS

\* setTerminalState keeping a terminal state that is already set.
setTerminalState_OnlyOnce(d, state) ==
  IF state \in {ERROR, SKIP, SUCCESS}
  THEN Returned(IF d.terminalState = NoState
                THEN [d EXCEPT !.terminalState = state] ELSE d)
  ELSE Threw(InvalidState, d)

\* setTerminalState storing the value before it validates it.
setTerminalState_StoresFirst(d, state) ==
  IF state \in {ERROR, SKIP, SUCCESS}
  THEN Returned([d EXCEPT !.terminalState = state])
  ELSE Threw(InvalidState, [d EXCEPT !.terminalState = state])

\* __.setTerminalState: stores one of the three constants, throws on
\* anything else before touching the record.
setTerminalState(d, state) ==
  IF state \in {ERROR, SKIP, SUCCESS}
  THEN Returned([d EXCEPT !.terminalState = state])
  ELSE Threw(InvalidState, d)

\* addHookStart pushing hookUID on hookOrder only when it is not there yet.
addHookStart_Dedups(d, hookUID, t) ==
  Returned([d EXCEPT
    !.hooks = [h \in DOMAIN d.hooks \cup {hookUID} |->
                 IF h = hookUID THEN [start |-> Date(t), end |-> Undefined]
                                ELSE d.hooks[h]],
    !.hookOrder = IF \E i \in DOMAIN d.hookOrder : d.hookOrder[i] = hookUID
                  THEN d.hookOrder ELSE Append(d.hookOrder, hookUID)])

\* __.addHookStart: a fresh sub-record {start: new Date()} under hookUID
\* (replacing any earlier one) and hookUID pushed on hookOrder.
addHookStart(d, hookUID, t) ==
  Returned([d EXCEPT
    !.hooks = [h \in DOMAIN d.hooks \cup {hookUID} |->
                 IF h = hookUID THEN [start |-> Date(t), end |-> Undefined]
                                ELSE d.hooks[h]],
    !.hookOrder = Append(d.hookOrder, hookUID)])

\* addHookEnd creating the sub-record when hookUID has none.
addHookEnd_Creates(d, hookUID, t) ==
  IF hookUID \in DOMAIN d.hooks
  THEN Returned([d EXCEPT !.hooks[hookUID].end = Date(t)])
  ELSE Returned([d EXCEPT !.hooks =
         [h \in DOMAIN d.hooks \cup {hookUID} |->
            IF h = hookUID THEN [start |-> Undefined, end |-> Date(t)]
                           ELSE d.hooks[h]]])

\* __.addHookEnd: this.hooks[hookUID].end = new Date(); assigning to a
\* property of undefined throws a TypeError.
addHookEnd(d, hookUID, t) ==
  IF hookUID \in DOMAIN d.hooks
  THEN Returned([d EXCEPT !.hooks[hookUID].end = Date(t)])
  ELSE Threw(TypeError, d)

\* __.setEndTime: throws unless end instanceof Date, else stores it.
setEndTime(d, end) ==
  IF end.tag = "date"
  THEN Returned([d EXCEPT !.end = end])
  ELSE Threw(InvalidEnd, d)

\* obj[key] = value on a dictionary object.
Put(obj, key, value) ==
  [k \in DOMAIN obj \cup {key} |-> IF k = key THEN value ELSE obj[k]]

\* ------------------------------------------------------------ Aggregator
\* Queries return [threw, value].
Value(v) == [threw |-> NoError, value |-> v]
Raise(e) == [threw |-> e, value |-> Undefined]

\* _.getTestData: the record under uid, or throws.
getTestData(uid) ==
  IF uid \in DOMAIN _tests THEN Value(_tests[uid]) ELSE Raise(InvalidTestUid)

\* _.getSuiteData: the record under uid, or throws.
getSuiteData(uid) ==
  IF uid \in DOMAIN _suites THEN Value(_suites[uid]) ELSE Raise(InvalidSuiteUid)

\* getTotalDuration testing _start where the code tests _end.
getTotalDuration_TestsStart ==
  IF LooselyNull(_start) THEN Null ELSE Minus(_end, _start)

\* _.getTotalDuration: null while _end == null, else _end - _start.
getTotalDuration ==
  IF LooselyNull(_end) THEN Null ELSE Minus(_end, _start)

\* `for (const data of obj)` asks obj for obj[Symbol.iterator].  An object
\* made by the literal {} and given only uid keys has none, whatever it
\* holds, so the statement throws a TypeError before its first round.
IsIterable(obj) == FALSE

\* _.getNumberOfErrors / Skips / Successes: total starts at 0 and the loop
\* over this._tests adds the boolean getIs...() of every record.
getNumberOfErrors ==
  IF IsIterable(_tests)
  THEN Value(Num(Cardinality({k \in DOMAIN _tests : getIsError(_tests[k])})))
  ELSE Raise(TypeError)

getNumberOfSkips ==
  IF IsIterable(_tests)
  THEN Value(Num(Cardinality({k \in DOMAIN _tests : getIsSkip(_tests[k])})))
  ELSE Raise(TypeError)

getNumberOfSuccesses ==
  IF IsIterable(_tests)
  THEN Value(Num(Cardinality({k \in DOMAIN _tests : getIsSuccess(_tests[k])})))
  ELSE Raise(TypeError)

\* ---------------------------------------------------------- the handlers
\* Each handler is the whole callback registered with runner.on: the
\* program state after it and what it threw.  t is what `new Date()` reads.
Handled(e) == err' = e

\* The 'start' handler keeping the first timestamp.
OnStart_KeepsFirst(t) ==
  /\ _start' = IF _start = Undefined THEN Date(t) ELSE _start
  /\ Handled(NoError)
  /\ UNCHANGED <<_end, _suites, _tests>>

\* runner.on('start')
OnStart(t) ==
  /\ _start' = Date(t)
  /\ Handled(NoError)
  /\ UNCHANGED <<_end, _suites, _tests>>

\* runner.on('end')
OnEnd(t) ==
  /\ _end' = Date(t)
  /\ Handled(NoError)
  /\ UNCHANGED <<_start, _suites, _tests>>

\* The 'suite' handler storing the record in _tests.
OnSuite_IntoTests(suite, t) ==
  /\ _tests' = Put(_tests, suite, Data(Date(t)))
  /\ Handled(NoError)
  /\ UNCHANGED <<_start, _end, _suites>>

\* runner.on('suite')
OnSuite(suite, t) ==
  /\ _suites' = Put(_suites, suite, Data(Date(t)))
  /\ Handled(NoError)
  /\ UNCHANGED <<_start, _end, _tests>>

\* runner.on('suite end'): self._suites[suite.uid] is undefined for a uid
\* never started, and calling a method of undefined throws a TypeError.
OnSuiteEnd(suite, t) ==
  /\ IF suite \in DOMAIN _suites
     THEN /\ _suites' = Put(_suites, suite, setEndTime(_suites[suite], Date(t)).data)
          /\ Handled(setEndTime(_suites[suite], Date(t)).threw)
     ELSE /\ UNCHANGED _suites
          /\ Handled(TypeError)
  /\ UNCHANGED <<_start, _end, _tests>>

\* The 'test' handler keeping a record that is already there.
OnTest_KeepsExisting(test, t) ==
  /\ _tests' = IF test \in DOMAIN _tests THEN _tests
                ELSE Put(_tests, test, Data(Date(t)))
  /\ Handled(NoError)
  /\ UNCHANGED <<_start, _end, _suites>>

\* runner.on('test')
OnTest(test, t) ==
  /\ _tests' = Put(_tests, test, Data(Date(t)))
  /\ Handled(NoError)
  /\ UNCHANGED <<_start, _end, _suites>>

\* The 'test end' handler ending every test that is still running.
OnTestEnd_EndsAll(test, t) ==
  /\ IF test \in DOMAIN _tests
     THEN /\ _tests' = [k \in DOMAIN _tests |->
                          IF k = test \/ _tests[k].end = Null
                          THEN setEndTime(_tests[k], Date(t)).data ELSE _tests[k]]
          /\ Handled(setEndTime(_tests[test], Date(t)).threw)
     ELSE /\ UNCHANGED _tests
          /\ Handled(TypeError)
  /\ UNCHANGED <<_start, _end, _suites>>

\* runner.on('test end')
OnTestEnd(test, t) ==
  /\ IF test \in DOMAIN _tests
     THEN /\ _tests' = Put(_tests, test, setEndTime(_tests[test], Date(t)).data)
          /\ Handled(setEndTime(_tests[test], Date(t)).threw)
     ELSE /\ UNCHANGED _tests
          /\ Handled(TypeError)
  /\ UNCHANGED <<_start, _end, _suites>>

\* The handlers' test stopping at hook.ctx.
HasCurrentTestUid_OnlyCtx(hook) == hook.ref # NoCtx

\* hook && hook.ctx && hook.ctx.currentTest && hook.ctx.currentTest.uid
HasCurrentTestUid(hook) == hook.ref \notin NoRefs

\* runner.on('hook')
OnHook(hook, t) ==
  /\ IF ~HasCurrentTestUid(hook)
     THEN /\ UNCHANGED _tests
          /\ Handled(NoError)
     ELSE IF hook.ref \in DOMAIN _tests
     THEN /\ _tests' = Put(_tests, hook.ref,
                           addHookStart(_tests[hook.ref], hook.uid, t).data)
          /\ Handled(addHookStart(_tests[hook.ref], hook.uid, t).threw)
     ELSE /\ UNCHANGED _tests
          /\ Handled(TypeError)
  /\ UNCHANGED <<_start, _end, _suites>>

\* runner.on('hook end')
OnHookEnd(hook, t) ==
  /\ IF ~HasCurrentTestUid(hook)
     THEN /\ UNCHANGED _tests
          /\ Handled(NoError)
     ELSE IF hook.ref \in DOMAIN _tests
     THEN /\ _tests' = Put(_tests, hook.ref,
                           addHookEnd(_tests[hook.ref], hook.uid, t).data)
          /\ Handled(addHookEnd(_tests[hook.ref], hook.uid, t).threw)
     ELSE /\ UNCHANGED _tests
          /\ Handled(TypeError)
  /\ UNCHANGED <<_start, _end, _suites>>

\* The 'pass' handler refusing a test that has already ended.
OnPass_RejectsEnded(test) ==
  /\ IF test \in DOMAIN _tests /\ _tests[test].end = Null
     THEN /\ _tests' = Put(_tests, test, setTerminalState(_tests[test], SUCCESS).data)
          /\ Handled(setTerminalState(_tests[test], SUCCESS).threw)
     ELSE /\ UNCHANGED _tests
          /\ Handled(TypeError)
  /\ UNCHANGED <<_start, _end, _suites>>

\* runner.on('pass')
OnPass(test) ==
  /\ IF test \in DOMAIN _tests
     THEN /\ _tests' = Put(_tests, test, setTerminalState(_tests[test], SUCCESS).data)
          /\ Handled(setTerminalState(_tests[test], SUCCESS).threw)
     ELSE /\ UNCHANGED _tests
          /\ Handled(TypeError)
  /\ UNCHANGED <<_start, _end, _suites>>

\* The 'fail' handler without its guard, like 'pass' and 'pending'.
OnFail_Unguarded(test) ==
  /\ IF test \in DOMAIN _tests
     THEN /\ _tests' = Put(_tests, test, setTerminalState(_tests[test], ERROR).data)
          /\ Handled(setTerminalState(_tests[test], ERROR).threw)
     ELSE /\ UNCHANGED _tests
          /\ Handled(TypeError)
  /\ UNCHANGED <<_start, _end, _suites>>

\* runner.on('fail'): guarded by if (self._tests[test.uid])
OnFail(test) ==
  /\ IF test \in DOMAIN _tests
     THEN /\ _tests' = Put(_tests, test, setTerminalState(_tests[test], ERROR).data)
          /\ Handled(setTerminalState(_tests[test], ERROR).threw)
     ELSE /\ UNCHANGED _tests
          /\ Handled(NoError)
  /\ UNCHANGED <<_start, _end, _suites>>

\* The 'pending' handler guarded the way 'fail' is.
OnPending_Guarded(test) ==
  /\ IF test \in DOMAIN _tests
     THEN /\ _tests' = Put(_tests, test, setTerminalState(_tests[test], SKIP).data)
          /\ Handled(setTerminalState(_tests[test], SKIP).threw)
     ELSE /\ UNCHANGED _tests
          /\ Handled(NoError)
  /\ UNCHANGED <<_start, _end, _suites>>

\* runner.on('pending')
OnPending(test) ==
  /\ IF test \in DOMAIN _tests
     THEN /\ _tests' = Put(_tests, test, setTerminalState(_tests[test], SKIP).data)
          /\ Handled(setTerminalState(_tests[test], SKIP).threw)
     ELSE /\ UNCHANGED _tests
          /\ Handled(TypeError)
  /\ UNCHANGED <<_start, _end, _suites>>

\* -------------------------------------------------- consumer-side calls
\* A consumer calls a mutating method on what getTestData(uid) or
\* getSuiteData(uid) returned.  The getter returns the very object the
\* dictionary holds, so the method acts on the aggregator's own record; a
\* getter that throws ends the call there.
CallOn(on, uid, result) ==
  /\ IF on = "test"
     THEN /\ _tests' = IF getTestData(uid).threw = NoError
                       THEN Put(_tests, uid, result.data) ELSE _tests
          /\ Handled(IF getTestData(uid).threw = NoError
                     THEN result.threw ELSE getTestData(uid).threw)
          /\ UNCHANGED _suites
     ELSE /\ _suites' = IF getSuiteData(uid).threw = NoError
                        THEN Put(_suites, uid, result.data) ELSE _suites
          /\ Handled(IF getSuiteData(uid).threw = NoError
                     THEN result.threw ELSE getSuiteData(uid).threw)
          /\ UNCHANGED _tests
  /\ UNCHANGED <<_start, _end>>

\* The record a call on (on, uid) reaches, when the getter returns one.
Target(on, uid) ==
  IF on = "test"
  THEN (IF uid \in DOMAIN _tests THEN _tests[uid] ELSE Data(Undefined))
  ELSE (IF uid \in DOMAIN _suites THEN _suites[uid] ELSE Data(Undefined))

CallSetTerminalState(on, uid, state) ==
  CallOn(on, uid, setTerminalState(Target(on, uid), state))

CallSetEndTime(on, uid, end) ==
  CallOn(on, uid, setEndTime(Target(on, uid), end))

CallAddHookStart(on, uid, hookUID, t) ==
  CallOn(on, uid, addHookStart(Target(on, uid), hookUID, t))

CallAddHookEnd(on, uid, hookUID, t) ==
  CallOn(on, uid, addHookEnd(Target(on, uid), hookUID, t))

\* ---------------------------------------------------------- the history
\* What was delivered: [type, uid, ref, on, state, end, hook].  For a
\* runner event uid is the payload's uid and ref what a hook payload's
\* ctx.currentTest.uid holds; for a consumer call on says which getter
\* was used and state, end, hook are the argument.
Event(type, uid, ref) ==
  [type |-> type, uid |-> uid, ref |-> ref, on |-> "-",
   state |-> "-", end |-> Undefined, hook |-> "-"]

Call(type, on, uid, state, end, hook) ==
  [type |-> type, uid |-> uid, ref |-> "-", on |-> on,
   state |-> state, end |-> end, hook |-> hook]

Outcomes == {"pass", "fail", "pending"}

\* The log of the events delivered, kept apart from the program state and
\* computed from the events and the clock alone.  Per uid it describes
\* the events since the last start event for that uid (the lifetime of the
\* record now stored under the uid): the clock at the start event, at
\* the last end event, the last outcome event, the hook uids of the
\* hook-start events in order, and the clock at each hook's last hook-end
\* event since that hook's last hook-start.
LogLifetime(h, e, t) ==
  CASE e.type = "start" -> [h EXCEPT !.runStartAt = <<t>>]
    [] e.type = "end" -> [h EXCEPT !.runEndAt = <<t>>]
    [] e.type = "suite" ->
         [h EXCEPT !.suites = Put(h.suites, e.uid, [startAt |-> t, endAt |-> <<>>])]
    [] e.type = "suite end" /\ e.uid \in DOMAIN h.suites ->
         [h EXCEPT !.suites[e.uid].endAt = <<t>>]
    [] e.type = "test" ->
         [h EXCEPT !.tests = Put(h.tests, e.uid,
            [startAt |-> t, endAt |-> <<>>, outcome |-> "none",
             firstOutcome |-> "none", hookStarts |-> <<>>,
             hookStartAt |-> [k \in {} |-> 0],
             hookEndAt |-> [k \in {} |-> 0]])]
    [] e.type = "test end" /\ e.uid \in DOMAIN h.tests ->
         [h EXCEPT !.tests[e.uid].endAt = <<t>>]
    [] e.type \in Outcomes /\ e.uid \in DOMAIN h.tests ->
         [h EXCEPT !.tests[e.uid].outcome = e.type,
                   !.tests[e.uid].firstOutcome = IF @ = "none" THEN e.type ELSE @]
    [] e.type = "hook" /\ e.ref \in DOMAIN h.tests ->
         [h EXCEPT !.tests[e.ref].hookStarts = Append(@, e.uid),
                   !.tests[e.ref].hookStartAt = Put(@, e.uid, t),
                   !.tests[e.ref].hookEndAt =
                      [k \in DOMAIN @ \ {e.uid} |-> @[k]]]
    [] e.type = "hook end" /\ e.ref \in DOMAIN h.tests ->
         IF \E i \in DOMAIN h.tests[e.ref].hookStarts :
              h.tests[e.ref].hookStarts[i] = e.uid
         THEN [h EXCEPT !.tests[e.ref].hookEndAt = Put(@, e.uid, t)]
         ELSE h
    [] OTHER -> h

\* What the log keeps across a repeated start event: the clock at the
\* first run-start, the first run-end, and the first start event of every
\* suite uid and test uid.
LogFirst(f, e, t) ==
  CASE e.type = "start" /\ f.runStartAt = <<>> -> [f EXCEPT !.runStartAt = <<t>>]
    [] e.type = "end" /\ f.runEndAt = <<>> -> [f EXCEPT !.runEndAt = <<t>>]
    [] e.type = "suite" /\ e.uid \notin DOMAIN f.suites ->
         [f EXCEPT !.suites = Put(@, e.uid, t)]
    [] e.type = "test" /\ e.uid \notin DOMAIN f.tests ->
         [f EXCEPT !.tests = Put(@, e.uid, t)]
    [] OTHER -> f

LogEvent(h, e, t) ==
  [LogLifetime(h, e, t) EXCEPT !.first = LogFirst(h.first, e, t)]

\* ------------------------------------------------------ the state machine
Init ==
  /\ _start = Undefined
  /\ _end = Undefined
  /\ _suites = EmptyObject
  /\ _tests = EmptyObject
  /\ now = 0
  /\ err = NoError
  /\ ev = Event("new Aggregator", "-", "-")
  /\ nEvents = 0
  /\ nCalls = 0
  /\ hist = [runStartAt |-> <<>>, runEndAt |-> <<>>,
             suites |-> [k \in {} |-> 0], tests |-> [k \in {} |-> 0],
             first |-> [runStartAt |-> <<>>, runEndAt |-> <<>>,
                        suites |-> [k \in {} |-> 0],
                        tests |-> [k \in {} |-> 0]]]

\* Time is observed only through `new Date()`: a handler or call that
\* reads the clock reads what the last read gave or one more; one that
\* does not read it leaves now alone.
Readings == {t \in {now, now + 1} : t <= MaxClock}

Deliver(e, t) ==
  /\ nEvents < MaxEvents
  /\ nEvents' = nEvents + 1
  /\ now' = t
  /\ ev' = e
  /\ hist' = LogEvent(hist, e, t)

\* A runner event.
Emit(e, t) == Deliver(e, t) /\ UNCHANGED nCalls

\* A consumer call.
Consume(e, t) == Deliver(e, t) /\ nCalls < MaxCalls /\ nCalls' = nCalls + 1

\* A hook with an owning test, or a hook without one in each shape.
HookPayloads ==
  [uid : HookIds, ref : TestIds] \cup [uid : {"h1"}, ref : NoRefs]

\* The record a call on (on, uid) reaches, when the getter returns one.
Known(on, uid) ==
  IF on = "test" THEN uid \in DOMAIN _tests ELSE uid \in DOMAIN _suites

\* hookOrder grows without limit in the program; the model stops at
\* MaxHookOrder entries per record.
RoomForHook(on, uid) ==
  Known(on, uid) => Len(Target(on, uid).hookOrder) < MaxHookOrder

\* The clock readings of a handler that evaluates `new Date()` only when
\* the record it looks up exists.
ReadingsIf(known) == IF known THEN Readings ELSE {now}

EmitStart == \E t \in Readings : Emit(Event("start", "-", "-"), t) /\ OnStart(t)

EmitEnd == \E t \in Readings : Emit(Event("end", "-", "-"), t) /\ OnEnd(t)

EmitSuite ==
  \E t \in Readings, uid \in SuiteIds :
    Emit(Event("suite", uid, "-"), t) /\ OnSuite(uid, t)

EmitSuiteEnd ==
  \E uid \in SuiteIds : \E t \in ReadingsIf(Known("suite", uid)) :
    Emit(Event("suite end", uid, "-"), t) /\ OnSuiteEnd(uid, t)

EmitTest ==
  \E t \in Readings, uid \in TestIds :
    Emit(Event("test", uid, "-"), t) /\ OnTest(uid, t)

EmitTestEnd ==
  \E uid \in TestIds : \E t \in ReadingsIf(Known("test", uid)) :
    Emit(Event("test end", uid, "-"), t) /\ OnTestEnd(uid, t)

EmitHook ==
  \E hook \in HookPayloads : \E t \in ReadingsIf(Known("test", hook.ref)) :
    /\ RoomForHook("test", hook.ref)
    /\ Emit(Event("hook", hook.uid, hook.ref), t)
    /\ OnHook(hook, t)

EmitHookEnd ==
  \E hook \in HookPayloads :
    \E t \in ReadingsIf(Known("test", hook.ref) /\ hook.uid \in DOMAIN _tests[hook.ref].hooks) :
      Emit(Event("hook end", hook.uid, hook.ref), t) /\ OnHookEnd(hook, t)

EmitPass ==
  \E uid \in TestIds : Emit(Event("pass", uid, "-"), now) /\ OnPass(uid)

EmitFail ==
  \E uid \in TestIds : Emit(Event("fail", uid, "-"), now) /\ OnFail(uid)

EmitPending ==
  \E uid \in TestIds : Emit(Event("pending", uid, "-"), now) /\ OnPending(uid)

\* The runner's event stream: any event, in any order.
Next ==
  \/ EmitStart
  \/ EmitEnd
  \/ EmitSuite
  \/ EmitSuiteEnd
  \/ EmitTest
  \/ EmitTestEnd
  \/ EmitHook
  \/ EmitHookEnd
  \/ EmitPass
  \/ EmitFail
  \/ EmitPending

Spec == Init /\ [][Next]_vars

\* Arguments a consumer may pass, and the getter and uid it uses.
StateArgs == {ERROR, "bogus"}
EndArgs == {Date(0), Num(1)}
Lookups == [on : {"test"}, uid : TestIds] \cup [on : {"suite"}, uid : SuiteIds]

ConsumerSetTerminalState ==
  \E r \in Lookups, state \in StateArgs :
    /\ Consume(Call("setTerminalState", r.on, r.uid, state, Undefined, "-"), now)
    /\ CallSetTerminalState(r.on, r.uid, state)

ConsumerSetEndTime ==
  \E r \in Lookups, end \in EndArgs :
    /\ Consume(Call("setEndTime", r.on, r.uid, "-", end, "-"), now)
    /\ CallSetEndTime(r.on, r.uid, end)

ConsumerAddHookStart ==
  \E r \in Lookups, hook \in HookIds :
    \E t \in ReadingsIf(Known(r.on, r.uid)) :
      /\ RoomForHook(r.on, r.uid)
      /\ Consume(Call("addHookStart", r.on, r.uid, "-", Undefined, hook), t)
      /\ CallAddHookStart(r.on, r.uid, hook, t)

ConsumerAddHookEnd ==
  \E r \in Lookups, hook \in HookIds :
    \E t \in ReadingsIf(Known(r.on, r.uid) /\ hook \in DOMAIN Target(r.on, r.uid).hooks) :
      /\ Consume(Call("addHookEnd", r.on, r.uid, "-", Undefined, hook), t)
      /\ CallAddHookEnd(r.on, r.uid, hook, t)

\* The event stream together with a consumer that uses the records the
\* getters hand out.
NextCalls ==
  \/ Next
  \/ ConsumerSetTerminalState
  \/ ConsumerSetEndTime
  \/ ConsumerAddHookStart
  \/ ConsumerAddHookEnd

SpecCalls == Init /\ [][NextCalls]_vars

\* ------------------------------------------------------------ the claims
\* Number of records of _tests whose terminal state is state.
CountOf(state) == Cardinality({k \in DOMAIN _tests : _tests[k].terminalState = state})

\* No outcome event has been delivered for the record under uid.
NoOutcomeYet(uid) == hist.tests[uid].outcome = "none"

\* C1: getNumberOfErrors(), getNumberOfSkips() and getNumberOfSuccesses()
\* each return, without raising, the number of records of tests whose
\* terminal state is error, skip and success; 0 when tests is empty.
C1_CountsReturned ==
  /\ getNumberOfErrors = Value(Num(CountOf(ERROR)))
  /\ getNumberOfSkips = Value(Num(CountOf(SKIP)))
  /\ getNumberOfSuccesses = Value(Num(CountOf(SUCCESS)))

\* C2: the three counts add up to at most the number of tests started,
\* and to exactly that number when every started test has had a pass,
\* fail or pending event.
C2_SumBoundedByStarted ==
  /\ getNumberOfErrors.threw = NoError
  /\ getNumberOfSkips.threw = NoError
  /\ getNumberOfSuccesses.threw = NoError
  /\ LET sum == getNumberOfErrors.value.val + getNumberOfSkips.value.val
                  + getNumberOfSuccesses.value.val
         started == Cardinality(DOMAIN hist.tests)
     IN /\ sum <= started
        /\ (\A uid \in DOMAIN hist.tests : ~NoOutcomeYet(uid)) => sum = started

\* C3: for every test record, getIsError, getIsSkip and getIsSuccess are
\* all false while no pass/fail/pending event has been processed for it,
\* and afterwards exactly one is true, the one matching the event (the
\* last one delivered): pass -> success, fail -> error, pending -> skip.
C3_ExactlyOneMatchingOutcome ==
  /\ DOMAIN _tests = DOMAIN hist.tests
  /\ \A uid \in DOMAIN _tests :
       LET d == _tests[uid]
           o == hist.tests[uid].outcome
       IN /\ getIsSuccess(d) <=> o = "pass"
          /\ getIsError(d) <=> o = "fail"
          /\ getIsSkip(d) <=> o = "pending"
          /\ o = "none" => ~getIsSuccess(d) /\ ~getIsError(d) /\ ~getIsSkip(d)
          /\ o # "none" =>
               Cardinality({p \in {"e", "k", "s"} :
                              \/ p = "e" /\ getIsError(d)
                              \/ p = "k" /\ getIsSkip(d)
                              \/ p = "s" /\ getIsSuccess(d)}) = 1

\* C3 witness: one test has failed after it had passed, another is still
\* without an outcome.
C3_Witness ==
  /\ ev.type = "fail" /\ ev.uid \in DOMAIN _tests /\ getIsError(_tests[ev.uid])
  /\ hist.tests[ev.uid].firstOutcome = "pass"
  /\ \E uid \in DOMAIN _tests : NoOutcomeYet(uid)

\* The duration the events of a record's lifetime give: none before the
\* end event, else the clock at the (last) end event minus the clock at
\* the start event.
ExpectedDuration(h) ==
  IF h.endAt = <<>> THEN Null ELSE Num(h.endAt[1] - h.startAt)

\* C4: for every suite and every test started, getDuration() is null
\* between the start event and the end event, and after the end event it
\* is the clock at the end event minus the clock at the start event.
C4_DurationIsEventDelta ==
  /\ DOMAIN _suites = DOMAIN hist.suites
  /\ DOMAIN _tests = DOMAIN hist.tests
  /\ \A uid \in DOMAIN _suites :
       getDuration(getSuiteData(uid).value) = ExpectedDuration(hist.suites[uid])
  /\ \A uid \in DOMAIN _tests :
       getDuration(getTestData(uid).value) = ExpectedDuration(hist.tests[uid])

\* C4 witness: a test that ended one clock step after it started, while
\* a suite is started and not yet ended.
C4_Witness ==
  /\ \E uid \in DOMAIN _tests :
       /\ hist.tests[uid].endAt # <<>>
       /\ getDuration(_tests[uid]) = Num(1)
  /\ \E uid \in DOMAIN _suites :
       hist.suites[uid].endAt = <<>> /\ getDuration(_suites[uid]) = Null

\* C5 as stated: getTotalDuration() is null while no run-end event has
\* been processed, and once one has been processed it is a defined number,
\* runEnd minus runStart.
C5_AlwaysANumberAfterRunEnd ==
  /\ hist.runEndAt = <<>> => getTotalDuration = Null
  /\ hist.runEndAt # <<>> =>
       /\ getTotalDuration.tag = "number"
       /\ getTotalDuration = Minus(_end, _start)

\* C5 amended: getTotalDuration() is null while no run-end event has been
\* processed; once one has been processed it is _end - _start, which is
\* the clock at the last run-end minus the clock at the last run-start
\* when a run-start event has been processed, and NaN when none has.
C5_NumberOnlyAfterRunStart ==
  /\ hist.runEndAt = <<>> => getTotalDuration = Null
  /\ hist.runEndAt # <<>> /\ hist.runStartAt # <<>> =>
       getTotalDuration = Num(hist.runEndAt[1] - hist.runStartAt[1])
  /\ hist.runEndAt # <<>> /\ hist.runStartAt = <<>> => getTotalDuration = NaN

\* C5 witness: the run ended one clock step after it started.
C5_Witness ==
  /\ ev.type = "end"
  /\ hist.runStartAt # <<>>
  /\ getTotalDuration = Num(1)

\* The aggregator's own state.
aggregator == <<_start, _end, _suites, _tests>>

C7_OrphanFailSwallowed ==
  [][\A uid \in TestIds :
       (ev' = Event("fail", uid, "-") /\ uid \notin DOMAIN _tests) =>
         /\ err' = NoError
         /\ UNCHANGED aggregator
         /\ getTestData(uid)'.threw = InvalidTestUid]_vars

\* C7 witness: a fail event was just delivered for a uid that has no
\* record, while another test has one.
C7_Witness ==
  /\ ev.type = "fail" /\ ev.uid \notin DOMAIN _tests
  /\ err = NoError
  /\ DOMAIN _tests # {}

\* C8: a pass or pending event for a test uid without a record raises a
\* TypeError at the handler (the missing key), creates no entry and leaves
\* every record as it was.
C8_OrphanPassPendingThrow ==
  [][\A uid \in TestIds, type \in {"pass", "pending"} :
       (ev' = Event(type, uid, "-") /\ uid \notin DOMAIN _tests) =>
         /\ err' = TypeError
         /\ UNCHANGED aggregator]_vars

\* C8 witness: a pending event was just delivered for a uid that has no
\* record, while another test has one.
C8_Witness ==
  /\ ev.type = "pending" /\ ev.uid \notin DOMAIN _tests
  /\ err = TypeError
  /\ DOMAIN _tests # {}

\* C9: on any record, setTerminalState with a value outside success,
\* error, skip and setEndTime with a value that is no Date each raise an
\* error and leave every field of the record as it was.
C9_InvalidArgumentLeavesRecord ==
  [][\A r \in Lookups :
       Known(r.on, r.uid) =>
         /\ \A state \in StateArgs \ {ERROR, SKIP, SUCCESS} :
              ev' = Call("setTerminalState", r.on, r.uid, state, Undefined, "-") =>
                /\ err' = InvalidState
                /\ Target(r.on, r.uid)' = Target(r.on, r.uid)
                /\ UNCHANGED aggregator
         /\ \A end \in {a \in EndArgs : a.tag # "date"} :
              ev' = Call("setEndTime", r.on, r.uid, "-", end, "-") =>
                /\ err' = InvalidEnd
                /\ Target(r.on, r.uid)' = Target(r.on, r.uid)
                /\ UNCHANGED aggregator]_vars

\* C9 witness: setTerminalState('bogus') was just called on a test
\* record that already holds an outcome and a hook.
C9_Witness ==
  /\ ev.type = "setTerminalState" /\ ev.state = "bogus" /\ ev.on = "test"
  /\ Known(ev.on, ev.uid)
  /\ err = InvalidState
  /\ _tests[ev.uid].terminalState = SUCCESS
  /\ _tests[ev.uid].hookOrder # <<>>

\* The hook sub-records the hook events of a test's lifetime give.
ExpectedHooks(h) == {h.hookStarts[i] : i \in DOMAIN h.hookStarts}

ExpectedHookEnd(h, hookUID) ==
  IF hookUID \in DOMAIN h.hookEndAt THEN Date(h.hookEndAt[hookUID]) ELSE Undefined

C11_UnassociatedHookIsNoOp ==
  [][(ev'.type \in {"hook", "hook end"} /\ ev'.ref \in NoRefs) =>
       /\ err' = NoError
       /\ UNCHANGED aggregator]_vars

\* C11 witness: a hook-end event with a ctx but no currentTest was just
\* delivered while a test with a started hook and a suite are recorded.
C11_Witness ==
  /\ ev.type = "hook end" /\ ev.ref = NoCurrentTest
  /\ err = NoError
  /\ \E uid \in DOMAIN _tests : ev.uid \in DOMAIN _tests[uid].hooks
  /\ DOMAIN _suites # {}

\* The dictionary a successful addHookEnd(hookUID) at clock t leaves.
WithHookEnded(obj, uid, hookUID, t) ==
  [obj EXCEPT ![uid].hooks[hookUID].end = Date(t)]

\* C12: addHookEnd(hookUID) on a test record that holds no sub-record
\* for hookUID (the hook was never started on that test) raises a
\* TypeError, creates no sub-record and changes no field; when the hook
\* was started it sets the end of that sub-record and nothing else.  The
\* same through a hook-end event and through a call on the record.
C12_HookEndNeedsHookStart ==
  [][\A uid \in TestIds, hookUID \in HookIds :
       (/\ uid \in DOMAIN _tests
        /\ \/ ev' = Event("hook end", hookUID, uid)
           \/ ev' = Call("addHookEnd", "test", uid, "-", Undefined, hookUID)) =>
         IF hookUID \in DOMAIN _tests[uid].hooks
         THEN /\ err' = NoError
              /\ _tests' = WithHookEnded(_tests, uid, hookUID, now')
              /\ UNCHANGED <<_start, _end, _suites>>
         ELSE /\ err' = TypeError
              /\ UNCHANGED aggregator]_vars

\* C12 witness: addHookEnd("h2") was just called on a test record on
\* which only h1 was started.
C12_Witness ==
  /\ ev.type = "addHookEnd" /\ ev.on = "test" /\ ev.hook = "h2"
  /\ ev.uid \in DOMAIN _tests
  /\ DOMAIN _tests[ev.uid].hooks = {"h1"}
  /\ err = TypeError

\* C13 as stated: once _start (respectively _end) holds a timestamp no
\* later event changes it, a repeated run-start or run-end included.
C13_RunTimesSetOnce ==
  [][/\ _start # Undefined => _start' = _start
     /\ _end # Undefined => _end' = _end]_vars

\* C13 amended: _start and _end are changed by no event other than
\* run-start and run-end respectively; every run-start event, a repeated
\* one included, sets _start to the clock at that event, and every run-end
\* event sets _end likewise.
C13_RunTimesFollowLastEvent ==
  [][/\ IF ev'.type = "start" THEN _start' = Date(now') ELSE _start' = _start
     /\ IF ev'.type = "end" THEN _end' = Date(now') ELSE _end' = _end]_vars

\* C13 witness: a second run-start was just delivered at a later clock
\* than the first.
C13_Witness ==
  /\ ev.type = "start"
  /\ hist.first.runStartAt # <<>>
  /\ _start = Date(now)
  /\ hist.first.runStartAt[1] < now

\* C14 as stated: once a record exists for a suite uid or test uid no
\* later event replaces it: its start never changes and its end, hooks,
\* hook order and terminal state are never reset.
C14_RecordInsertedOnce ==
  [][/\ \A uid \in DOMAIN _suites :
          /\ _suites'[uid].start = _suites[uid].start
          /\ _suites[uid].end # Null => _suites'[uid].end # Null
     /\ \A uid \in DOMAIN _tests :
          /\ _tests'[uid].start = _tests[uid].start
          /\ _tests[uid].end # Null => _tests'[uid].end # Null
          /\ _tests[uid].hookOrder # <<>> => _tests'[uid].hookOrder # <<>>
          /\ _tests[uid].terminalState # NoState =>
               _tests'[uid].terminalState # NoState]_vars

\* C14 amended: a record is replaced by nothing but a start event for
\* its own uid: every suite-start (test-start) event, a repeated one
\* included, stores a fresh record under the uid (start the clock at the
\* event, no end, no hooks, no terminal state), and under every other
\* event a record keeps its start and is never reset.
C14_RecordReplacedOnlyByItsStart ==
  [][/\ \A uid \in DOMAIN _suites :
          IF ev' = Event("suite", uid, "-")
          THEN _suites'[uid] = Data(Date(now'))
          ELSE /\ _suites'[uid].start = _suites[uid].start
               /\ _suites[uid].end # Null => _suites'[uid].end # Null
     /\ \A uid \in DOMAIN _tests :
          IF ev' = Event("test", uid, "-")
          THEN _tests'[uid] = Data(Date(now'))
          ELSE /\ _tests'[uid].start = _tests[uid].start
               /\ _tests[uid].end # Null => _tests'[uid].end # Null
               /\ _tests[uid].hookOrder # <<>> => _tests'[uid].hookOrder # <<>>
               /\ _tests[uid].terminalState # NoState =>
                    _tests'[uid].terminalState # NoState]_vars

\* C14 witness: a second test-start for a uid was just delivered at a
\* later clock than the first: the record is a fresh one that starts at
\* the later clock.
C14_Witness ==
  /\ ev.type = "test"
  /\ hist.first.tests[ev.uid] < now
  /\ _tests[ev.uid] = Data(Date(now))

\* The terminal state an outcome event stands for.
StateOf(outcome) ==
  CASE outcome = "pass" -> SUCCESS
    [] outcome = "fail" -> ERROR
    [] outcome = "pending" -> SKIP
    [] OTHER -> NoState

\* C15 as stated: once a test record's terminal state is success, error
\* or skip, no later pass, fail or pending event for the test changes it
\* to a different value.
C15_TerminalStateSetOnce ==
  [][\A uid \in DOMAIN _tests :
       (_tests[uid].terminalState # NoState /\ ev'.type \in Outcomes /\ ev'.uid = uid) =>
         _tests'[uid].terminalState = _tests[uid].terminalState]_vars

\* C15 amended: a test's terminal state is that of the last outcome
\* event: every pass, fail or pending event for a recorded test, a later
\* one included, stores its own value over the one held, and no other
\* event changes a terminal state except a test-start for the same uid,
\* which makes a new record without one.
C15_TerminalStateFollowsLastOutcome ==
  [][\A uid \in DOMAIN _tests :
       IF ev'.type \in Outcomes /\ ev'.uid = uid
       THEN _tests'[uid].terminalState = StateOf(ev'.type)
       ELSE IF ev' = Event("test", uid, "-")
       THEN _tests'[uid].terminalState = NoState
       ELSE _tests'[uid].terminalState = _tests[uid].terminalState]_vars

\* C15 witness: a pending event was just delivered for a test that had
\* failed before: the record says skip.
C15_Witness ==
  /\ ev.type = "pending" /\ ev.uid \in DOMAIN _tests
  /\ hist.tests[ev.uid].firstOutcome = "fail"
  /\ _tests[ev.uid].terminalState = SKIP

\* The record the events of a test's lifetime give, whatever the order in
\* which its outcome event and its test-end event came: the log keeps the
\* clock of the end event and the outcome apart and in no order.
RecordOf(h) ==
  [start |-> Date(h.startAt),
   end |-> IF h.endAt = <<>> THEN Null ELSE Date(h.endAt[1]),
   hooks |-> [k \in ExpectedHooks(h) |->
                [start |-> Date(h.hookStartAt[k]), end |-> ExpectedHookEnd(h, k)]],
   hookOrder |-> h.hookStarts,
   terminalState |-> StateOf(h.outcome)]

\* C16: for a started test the outcome event and the test-end event
\* commute: either order is handled without error, and the record that
\* results is the same for the same clock readings (it is determined by
\* the start clock, the end clock, the outcome and the hook events alone).
C16_OutcomeAndEndCommute ==
  /\ [](\A uid \in DOMAIN _tests : _tests[uid] = RecordOf(hist.tests[uid]))
  /\ [][(ev'.type \in Outcomes \cup {"test end"} /\ ev'.uid \in DOMAIN _tests) =>
          err' = NoError]_vars

\* C16 witness: a pass event was just delivered for a test that had
\* ended one clock step after its start: the record holds both.
C16_Witness ==
  /\ ev.type = "pass" /\ ev.uid \in DOMAIN _tests
  /\ err = NoError
  /\ hist.tests[ev.uid].firstOutcome = "pass"
  /\ _tests[ev.uid].end = Date(_tests[ev.uid].start.val + 1)
  /\ _tests[ev.uid].terminalState = SUCCESS

\* C17: consumers have read access only: nothing a consumer does with
\* what getTestData(uid) or getSuiteData(uid) returned changes the
\* records held in _tests and _suites; they change through delivered
\* events alone.
C17_ConsumersReadOnly ==
  [][ev'.on \in {"test", "suite"} => UNCHANGED <<_tests, _suites>>]_vars

\* C18: a hook-start or hook-end event that names a current-test uid for
\* which no test-start was processed is a no-op: nothing is raised, no
\* record is created, no state changes.
C18_HookOfUnknownTestIsNoOp ==
  [][(/\ ev'.type \in {"hook", "hook end"}
      /\ ev'.ref \in TestIds
      /\ ev'.ref \notin DOMAIN _tests) =>
       /\ err' = NoError
       /\ UNCHANGED aggregator]_vars

\* C19: every suite or test record whose end is set has end >= start,
\* whether the end came from an end event or from a direct setEndTime
\* call with any timestamp.
C19_EndNotBeforeStart ==
  /\ \A uid \in DOMAIN _suites :
       _suites[uid].end # Null => _suites[uid].end.val >= _suites[uid].start.val
  /\ \A uid \in DOMAIN _tests :
       _tests[uid].end # Null => _tests[uid].end.val >= _tests[uid].start.val

\* Every record of obj other than the one under uid is as it was, and no
\* key other than uid was added or removed.
OthersUnchanged(obj, objAfter, uid) ==
  /\ DOMAIN objAfter \ {uid} = DOMAIN obj \ {uid}
  /\ \A k \in DOMAIN obj \ {uid} : objAfter[k] = obj[k]

\* C20: an event handled without error changes at most the piece of
\* state it addresses: suite-start and suite-end only _suites[uid];
\* test-start, test-end, pass, fail and pending only _tests[uid];
\* hook-start and hook-end only the hooks and hookOrder of the owning
\* test's record; run-start only _start and run-end only _end.
C20_EventsChangeOnlyTheirTarget ==
  [][err' = NoError =>
       /\ ev'.type \in {"suite", "suite end"} =>
            /\ UNCHANGED <<_start, _end, _tests>>
            /\ OthersUnchanged(_suites, _suites', ev'.uid)
       /\ ev'.type \in {"test", "test end", "pass", "fail", "pending"} =>
            /\ UNCHANGED <<_start, _end, _suites>>
            /\ OthersUnchanged(_tests, _tests', ev'.uid)
       /\ ev'.type \in {"hook", "hook end"} =>
            /\ UNCHANGED <<_start, _end, _suites>>
            /\ DOMAIN _tests' = DOMAIN _tests
            /\ OthersUnchanged(_tests, _tests', ev'.ref)
            /\ ev'.ref \in DOMAIN _tests =>
                 /\ _tests'[ev'.ref].start = _tests[ev'.ref].start
                 /\ _tests'[ev'.ref].end = _tests[ev'.ref].end
                 /\ _tests'[ev'.ref].terminalState = _tests[ev'.ref].terminalState
       /\ ev'.type = "start" => UNCHANGED <<_end, _suites, _tests>>
       /\ ev'.type = "end" => UNCHANGED <<_start, _suites, _tests>>]_vars

\* C20 witness: a test-end event was just handled for one test while
\* another test is still running and a suite is recorded.
C20_Witness ==
  /\ ev.type = "test end" /\ err = NoError
  /\ _tests[ev.uid].end # Null
  /\ \E other \in DOMAIN _tests \ {ev.uid} : _tests[other].end = Null
  /\ DOMAIN _suites # {}

====
